---------------------------- MODULE Spec2Model ----------------------------
(***************************************************************************)
(* A model of report/analyze_path/analyze_path.py of caret_report: the     *)
(* Stats record, the duration estimator, the boundary-callback validator,  *)
(* the path configuration resolution, analyze_path and analyze.            *)
(*                                                                         *)
(* Values of the external libraries are modelled by what the script can   *)
(* see of them:                                                            *)
(*  - a records table (pandas DataFrame) is a dtype, a number of columns    *)
(*    and a sequence of rows; every column has the same number of rows and *)
(*    a cell is a timestamp in ns or missing;                              *)
(*  - a scalar is a tagged pair: <<"num", t>> a timestamp (ns),            *)
(*    <<"sec", d>> the float d * 1e-9, <<"NaN", 0>> the float nan,         *)
(*    <<"NA", 0>> pandas' NA (not a number type), <<"None", 0>> None;      *)
(*  - a latency sample is a float k/16 (exact in binary), given as k; a    *)
(*    statistic is <<"---", 0>>, <<"nan", 0>> or <<"num", r>>, the float   *)
(*    r/1000 that round(x, 3) yields.                                      *)
(***************************************************************************)
EXTENDS Integers, Sequences, FiniteSets, TLC

VARIABLES
    \* ---- analyze / analyze_path
    pc,             \* position in analyze ("idle"/"called" for a function on its own)
    message_flow,   \* args.message_flow
    include,        \* include_first_last_callback (dict: path name -> pair)
    idx,            \* index of the current path in arch.paths
    verify_log,     \* the values path.verify() has returned so far
    exit_code,      \* the process exit status (256 while running)
    calls,          \* path names analyze_path has been called with
    path_flags,     \* (include_first_callback, include_last_callback) of target_path
    records,        \* local `records` of analyze_path
    extract_log,    \* every to_records() call: flags at the call, table returned
    n_validate,     \* calls of check_the_first_last_callback_is_valid for this path
    valid,          \* (is_first_valid, is_last_valid)
    dur_log,        \* the tables handed to get_messageflow_durationtime
    stats,          \* local `stats` of analyze_path
    resp,           \* the response-time phase of this path
    artifacts,      \* files written into dest_dir
    stats_list,     \* stats_list of analyze
    yaml,           \* contents of stats_path.yaml (<<"absent">> until written)
    \* ---- the functions on their own
    in_table, out_dur_in, out_dur_out, out_valid,
    in_paths, in_json, out_include,
    in_best, in_worst, out_stats

mainData == <<message_flow, include, idx, verify_log, exit_code, calls,
              path_flags, records, extract_log, n_validate, valid, dur_log,
              stats, resp, artifacts, stats_list, yaml>>
mainVars == <<pc, mainData>>
recVars  == <<in_table, out_dur_in, out_dur_out, out_valid>>
cfgVars  == <<in_paths, in_json, out_include>>
statVars == <<in_best, in_worst, out_stats>>
functionVars == <<recVars, cfgVars, statVars>>
vars     == <<mainVars, functionVars>>

-----------------------------------------------------------------------------
(* Bounds of the model *)

MaxRows == 2          \* rows of a records table given to the functions alone
MaxTraceRows == 1     \* rows of a table to_records() returns inside analyze
MaxSamples == 3       \* samples of a series given to calc_stats alone
MaxEntries == 2       \* entries of target_path_list

Times == {1, 3}                   \* timestamps (ns)
ColumnCounts == {0, 1, 2}         \* columns of a records table
Dtypes == {"Int64", "float64"}    \* dtype of the table's columns
Samples == {1, 17, 24}            \* latency samples, in sixteenths
TraceTimes == {1}                 \* timestamps of a table inside analyze

RECURSIVE SeqsUpTo(_, _)
SeqsUpTo(S, n) ==
    IF n = 0 THEN {<<>>}
    ELSE LET shorter == SeqsUpTo(S, n - 1)
         IN shorter \cup {Append(s, x) : s \in {t \in shorter : Len(t) = n - 1}, x \in S}

Range(s) == {s[k] : k \in 1..Len(s)}

-----------------------------------------------------------------------------
(* Scalars *)

None == <<"None", 0>>
NA   == <<"NA", 0>>
NaN  == <<"NaN", 0>>
Missing == <<"missing", 0>>
Num(t) == <<"num", t>>
Sec(d) == <<"sec", d>>

Cells(times) == {Num(t) : t \in times} \cup {Missing}

TablesOf(ncols, maxrows, times) ==
    {[dtype |-> d, ncols |-> ncols, rows |-> r] :
        d \in Dtypes,
        r \in IF ncols = 0 THEN {<<>>} ELSE SeqsUpTo([1..ncols -> Cells(times)], maxrows)}

Tables == UNION {TablesOf(n, MaxRows, Times) : n \in ColumnCounts}
TraceTables == TablesOf(2, MaxTraceRows, TraceTimes)

\* len(df[column]): the rows of the frame, missing cells included
ColumnLen(t, c) == Len(t.rows)

ColumnValues(t, c) == {t.rows[k][c][2] : k \in {j \in 1..Len(t.rows) : t.rows[j][c] # Missing}}

\* the result of a reduction that has nothing to reduce
NullOf(t) == IF t.dtype = "Int64" THEN NA ELSE NaN

\* Series.min() / Series.max(): missing cells are skipped
ColumnMin(t, c) ==
    LET vs == ColumnValues(t, c)
    IN IF vs = {} THEN NullOf(t) ELSE Num(CHOOSE v \in vs : \A w \in vs : v <= w)

ColumnMax(t, c) ==
    LET vs == ColumnValues(t, c)
    IN IF vs = {} THEN NullOf(t) ELSE Num(CHOOSE v \in vs : \A w \in vs : v >= w)

\* (a - b) * 1e-9
ScaledDifference(a, b) ==
    IF a = NA \/ b = NA THEN NA
    ELSE IF a = NaN \/ b = NaN THEN NaN
    ELSE Sec(a[2] - b[2])

\* isinstance(duration, (int, float)): nan is a float
IsIntOrFloat(v) == v[1] \in {"num", "sec", "NaN"}

get_messageflow_durationtime(t, check_by_input) ==
    IF t.ncols = 0 THEN None      \* columns[0] raises IndexError: except -> None
    ELSE LET input_time_min == ColumnMin(t, 1)
             end == IF check_by_input THEN ColumnMax(t, 1) ELSE ColumnMax(t, t.ncols)
             duration == ScaledDifference(end, input_time_min)
         IN IF IsIntOrFloat(duration) THEN duration ELSE None

\* variant: a validator that looks at the samples of each column
SampleValidator(t) ==
    IF t.ncols = 0 THEN <<"IndexError">>
    ELSE <<"ok", ColumnValues(t, 1) # {}, ColumnValues(t, t.ncols) # {}>>

check_the_first_last_callback_is_valid(t) ==
    IF t.ncols = 0 THEN <<"IndexError">>    \* columns[0] outside any try
    ELSE <<"ok", ColumnLen(t, 1) # 0, ColumnLen(t, t.ncols) # 0>>

-----------------------------------------------------------------------------
(* Path configuration resolution.  A name is a sequence of characters; a    *)
(* field of a JSON entry is "true", "false" or "absent".                    *)

EntryNames == {<<>>, <<"a">>, <<"a", "b">>, <<"c">>}
Architectures == {<<>>, <<<<"a">>>>, <<<<"a", "b">>, <<"b">>>>, <<<<"b", "a">>, <<"a", "b">>>>,
                  <<<<"a">>, <<"a">>>>}
JsonFields == {"true", "false", "absent"}
JsonEntries == [name : EntryNames, include_first_callback : JsonFields,
                include_last_callback : JsonFields]
TargetPathLists == SeqsUpTo(JsonEntries, MaxEntries)

\* target_string in key
IsSubstring(target_string, key) ==
    \E k \in 0..(Len(key) - Len(target_string)) :
        SubSeq(key, k + 1, k + Len(target_string)) = target_string

\* variant: an absent field counts as False
FieldOrTrueMutant(v) == v = "true"
\* target_path[field] if field in target_path else True
FieldOrTrue(v) == v # "false"

EntryValue(e) == <<FieldOrTrue(e.include_first_callback), FieldOrTrue(e.include_last_callback)>>

modify_dictionary(dictionary, target_string, new_value) ==
    [key \in DOMAIN dictionary |->
        IF IsSubstring(target_string, key) THEN new_value ELSE dictionary[key]]

RECURSIVE ApplyEntries(_, _)
ApplyEntries(dictionary, entries) ==
    IF entries = <<>> THEN dictionary
    ELSE ApplyEntries(modify_dictionary(dictionary, Head(entries)["name"], EntryValue(Head(entries))),
                      Tail(entries))

get_include_first_last_callback(paths, target_path_list) ==
    ApplyEntries([n \in Range(paths) |-> <<TRUE, TRUE>>], target_path_list)

-----------------------------------------------------------------------------
(* Stats *)

CaseOrder == <<"best", "worst", "all">>
Placeholder == <<"---", 0>>
StatNan == <<"nan", 0>>
NoFile == <<"", <<>>, "">>

StatFields == {"avg", "std", "min", "max", "p50", "p95", "p99"}
SpreadFields == StatFields \ {"avg"}

\* f'{target_path_name}_{kind}_{case}'
FileName(target_path_name, kind, case) == <<kind, target_path_name, case>>

NewStats(target_path_name) ==
    [target_path_name |-> target_path_name,
     best  |-> [f \in StatFields |-> Placeholder],
     worst |-> [f \in StatFields |-> Placeholder],
     filename_messageflow |-> NoFile,
     filename_messageflow_short |-> NoFile,
     filename_hist_total |-> NoFile,
     filename_hist |-> [c \in {"best", "worst"} |-> NoFile],
     filename_timeseries |-> [c \in {"best", "worst"} |-> NoFile],
     filename_stacked_bar |-> [c \in {"best", "worst"} |-> NoFile]]

RECURSIVE Sum(_)
Sum(s) == IF s = <<>> THEN 0 ELSE Head(s) + Sum(Tail(s))

RECURSIVE SumSq(_)
SumSq(s) == IF s = <<>> THEN 0 ELSE Head(s) * Head(s) + SumSq(Tail(s))

RECURSIVE Insert(_, _)
Insert(x, s) ==
    IF s = <<>> THEN <<x>>
    ELSE IF x <= Head(s) THEN <<x>> \o s ELSE <<Head(s)>> \o Insert(x, Tail(s))

RECURSIVE Sorted(_)
Sorted(s) == IF s = <<>> THEN <<>> ELSE Insert(Head(s), Sorted(Tail(s)))

\* num/den rounded to an integer, ties to even (num >= 0, den > 0)
RoundHalfEven(num, den) ==
    LET q == num \div den
        r == num % den
    IN IF 2 * r < den THEN q
       ELSE IF 2 * r > den THEN q + 1
       ELSE IF q % 2 = 0 THEN q ELSE q + 1

\* round(float(x), 3) of x = num/den sixteenths, in thousandths
Round3(num, den) == <<"num", RoundHalfEven(1000 * num, 16 * den)>>

\* round(float(np.average(df)), 3): nan for an empty series
Average(df) == IF Len(df) = 0 THEN StatNan ELSE Round3(Sum(df), Len(df))

\* round(float(np.quantile(df, q/100)), 3), linear interpolation between ranks
Quantile(df, q) ==
    LET x == Sorted(df)
        h == (Len(df) - 1) * q
        lo == (h \div 100) + 1
        hi == IF lo < Len(df) THEN lo + 1 ELSE lo
    IN Round3(100 * x[lo] + (h % 100) * (x[hi] - x[lo]), 100)

\* r - 1/2 <= 1000 * sqrt(d) / (16 * n)
HalfBelow(r, d, n) == r = 0 \/ (2 * r - 1) * (2 * r - 1) * 4 * n * n <= 62500 * d

\* the largest r of lo..hi with HalfBelow(r, d, n), by bisection
RECURSIVE LargestBelow(_, _, _, _)
LargestBelow(lo, hi, d, n) ==
    IF lo >= hi THEN lo
    ELSE LET mid == (lo + hi + 1) \div 2
         IN IF HalfBelow(mid, d, n) THEN LargestBelow(mid, hi, d, n)
            ELSE LargestBelow(lo, mid - 1, d, n)

\* 1000 * sqrt(d) / (16 * n) rounded to an integer, ties to even
RoundedRoot(d, n, top) ==
    LET r == LargestBelow(0, top, d, n)
        tie == r > 0 /\ (2 * r - 1) * (2 * r - 1) * 4 * n * n = 62500 * d
    IN IF tie /\ r % 2 = 1 THEN r - 1 ELSE r

\* round(float(np.std(df)), 3): sqrt(n*sum(x^2) - sum(x)^2) / n
Std(df) ==
    LET n == Len(df)
        d == n * SumSq(df) - Sum(df) * Sum(df)
        top == 32 * (Sorted(df)[n] - Sorted(df)[1]) + 1
    IN CHOOSE s \in {<<"num", RoundedRoot(a[1], a[2], a[3])>> : a \in {<<d, n, top>>}} : TRUE

\* variant: the guard lets a single sample through
HasSpreadMutant(df) == Len(df) >= 1
\* len(df) > 1
HasSpread(df) == Len(df) > 1

CaseStats(df) ==
    IF HasSpread(df)
    THEN [f \in StatFields |->
            CASE f = "avg" -> Average(df)
              [] f = "min" -> Round3(Sorted(df)[1], 1)
              [] f = "max" -> Round3(Sorted(df)[Len(df)], 1)
              [] f = "std" -> Std(df)
              [] f = "p50" -> Quantile(df, 50)
              [] f = "p95" -> Quantile(df, 95)
              [] f = "p99" -> Quantile(df, 99)]
    ELSE [f \in StatFields |-> IF f = "avg" THEN Average(df) ELSE Placeholder]

calc_stats(self, df_best, df_worst) ==
    [self EXCEPT !.best = CaseStats(df_best), !.worst = CaseStats(df_worst)]

store_filename(self, target_path_name, save_long_graph) ==
    [self EXCEPT
       !.filename_messageflow =
           IF save_long_graph THEN FileName(target_path_name, "messageflow", "")
           ELSE self.filename_messageflow,
       !.filename_messageflow_short = FileName(target_path_name, "messageflow_short", ""),
       !.filename_hist = [c \in {"best", "worst"} |-> FileName(target_path_name, "hist", c)],
       !.filename_timeseries = [c \in {"best", "worst"} |-> FileName(target_path_name, "timeseries", c)],
       !.filename_stacked_bar = [c \in {"best", "worst"} |-> FileName(target_path_name, "stacked_bar", c)]]

-----------------------------------------------------------------------------
(* analyze_path and analyze *)

ArchPaths == <<<<"a">>, <<"a", "b">>>>       \* arch.paths: the declared path names
TargetPathFiles ==                           \* contents of args.target_path_json
    {<<>>,
     <<[name |-> <<"a">>, include_first_callback |-> "false", include_last_callback |-> "absent"]>>,
     <<[name |-> <<"a">>, include_first_callback |-> "true", include_last_callback |-> "false"],
       [name |-> <<"b">>, include_first_callback |-> "false", include_last_callback |-> "absent"]>>}
\* the best and the worst series the response-time plots give for a path
TraceSeriesPairs == {<<<<>>, <<>>>>, <<<<17>>, <<1, 24>>>>}

NoTable == [dtype |-> "none", ncols |-> 0, rows |-> <<>>]
NoResp  == [ran |-> FALSE, failed |-> {}, best |-> <<>>, worst |-> <<>>]
NoYaml  == [written |-> FALSE, list |-> <<>>]

\* sys.exit(status): the status the parent sees
ExitStatus(status) == status % 256

\* variant: the result of verify() is logged and ignored
AfterVerifyMutant(ret, last) == IF last THEN "analyze" ELSE "verify"
\* the loop over arch.paths that verifies: sys.exit(-1) on the first failure
AfterVerify(ret, last) == IF ~ret THEN "exited" ELSE IF last THEN "analyze" ELSE "verify"

\* variant: the retry keeps the configured flags
RetryFlagsMutant(flags, v) == flags
\* lines 152-154: the flags the path gets before the second to_records()
RetryFlags(flags, v) == <<v[2], v[3]>>

NeedsRetry(v) == (~v[2]) \/ (~v[3])

\* one case of the loop at lines 182-203: the files it writes
CaseFiles(name, case, failing) ==
    {FileName(name, "response_time_csv", case), FileName(name, "timeseries", case),
     FileName(name, "hist", case)}
    \cup (IF case \in failing THEN {} ELSE {FileName(name, "stacked_bar", case)})

\* variant: the exception of a stacked bar escapes the loop
RECURSIVE ResponseTimeLoopNoCatch(_, _, _)
ResponseTimeLoopNoCatch(name, cases, failing) ==
    IF cases = <<>> THEN [written |-> {}, completed |-> TRUE]
    ELSE IF Head(cases) \in failing
         THEN [written |-> CaseFiles(name, Head(cases), failing), completed |-> FALSE]
         ELSE LET rest == ResponseTimeLoopNoCatch(name, Tail(cases), failing)
              IN [written |-> CaseFiles(name, Head(cases), failing) \cup rest.written,
                  completed |-> rest.completed]

\* the loop at lines 182-203; `failing`: the cases whose stacked bar raises
RECURSIVE ResponseTimeLoop(_, _, _)
ResponseTimeLoop(name, cases, failing) ==
    IF cases = <<>> THEN [written |-> {}, completed |-> TRUE]
    ELSE LET rest == ResponseTimeLoop(name, Tail(cases), failing)
         IN [written |-> CaseFiles(name, Head(cases), failing) \cup rest.written,
             completed |-> rest.completed]

CurrentPath == ArchPaths[idx]

IdleMain ==
    /\ include = <<>> /\ idx = 1 /\ verify_log = <<>> /\ exit_code = 0
    /\ calls = <<>> /\ path_flags = <<TRUE, TRUE>> /\ records = NoTable
    /\ extract_log = <<>> /\ n_validate = 0 /\ valid = <<"ok", TRUE, TRUE>>
    /\ dur_log = <<>> /\ stats = NewStats(<<>>) /\ resp = NoResp
    /\ artifacts = {} /\ stats_list = <<>> /\ yaml = NoYaml
Unset == <<"unset", 0>>
IdleRec == in_table = NoTable /\ out_dur_in = Unset /\ out_dur_out = Unset /\ out_valid = <<"unset">>
IdleCfg == in_paths = <<>> /\ in_json = <<>> /\ out_include = <<"unset">>
IdleStat == in_best = <<>> /\ in_worst = <<>> /\ out_stats = NewStats(<<>>)

Init ==
    /\ pc = "start" /\ message_flow \in BOOLEAN
    /\ IdleMain /\ IdleRec /\ IdleCfg /\ IdleStat

\* analyze, lines 237-245
Setup ==
    /\ pc = "start"
    /\ \E target_path_list \in TargetPathFiles :
          include' = get_include_first_last_callback(ArchPaths, target_path_list)
    /\ idx' = 1
    /\ pc' = "verify"
    /\ UNCHANGED <<message_flow, verify_log, exit_code, calls, path_flags, records,
                   extract_log, n_validate, valid, dur_log, stats, resp, artifacts,
                   stats_list, yaml>>
    /\ UNCHANGED functionVars

\* analyze, lines 250-256: one turn of the verify loop
VerifyPath ==
    /\ pc = "verify"
    /\ \E ret_verify \in BOOLEAN :
          /\ verify_log' = Append(verify_log, ret_verify)
          /\ pc' = AfterVerify(ret_verify, idx = Len(ArchPaths))
          /\ exit_code' = IF pc' = "exited" THEN ExitStatus(-1) ELSE exit_code
          /\ idx' = IF pc' = "verify" THEN idx + 1 ELSE 1
    /\ UNCHANGED <<message_flow, include, calls, path_flags, records, extract_log,
                   n_validate, valid, dur_log, stats, resp, artifacts, stats_list, yaml>>
    /\ UNCHANGED functionVars

\* analyze line 261, analyze_path lines 144-150
AP_Extract ==
    /\ pc = "analyze" /\ idx <= Len(ArchPaths)
    /\ calls' = Append(calls, CurrentPath)
    /\ path_flags' = include[CurrentPath]
    /\ \E t \in TraceTables :
          /\ records' = t
          /\ extract_log' = <<[flags |-> path_flags', table |-> t]>>
    /\ pc' = "ap_validate"
    /\ UNCHANGED <<message_flow, include, idx, verify_log, exit_code, n_validate, valid,
                   dur_log, stats, resp, artifacts, stats_list, yaml>>
    /\ UNCHANGED functionVars

\* analyze_path line 151
AP_Validate ==
    /\ pc = "ap_validate"
    /\ valid' = check_the_first_last_callback_is_valid(records)
    /\ n_validate' = n_validate + 1
    /\ pc' = IF NeedsRetry(valid') THEN "ap_retry" ELSE "ap_duration"
    /\ UNCHANGED <<message_flow, include, idx, verify_log, exit_code, calls, path_flags,
                   records, extract_log, dur_log, stats, resp, artifacts, stats_list, yaml>>
    /\ UNCHANGED functionVars

\* analyze_path lines 152-155; the same flags give the same records again
AP_Retry ==
    /\ pc = "ap_retry"
    /\ path_flags' = RetryFlags(path_flags, valid)
    /\ \E t \in TraceTables :
          /\ (path_flags' = path_flags => t = records)
          /\ records' = t
          /\ extract_log' = Append(extract_log, [flags |-> path_flags', table |-> t])
    /\ pc' = "ap_duration"
    /\ UNCHANGED <<message_flow, include, idx, verify_log, exit_code, calls, n_validate,
                   valid, dur_log, stats, resp, artifacts, stats_list, yaml>>
    /\ UNCHANGED functionVars

\* analyze_path lines 157-163
AP_Duration ==
    /\ pc = "ap_duration"
    /\ stats' = NewStats(CurrentPath)
    /\ dur_log' = Append(dur_log, records)
    /\ pc' = IF get_messageflow_durationtime(records, TRUE) = None
             THEN "ap_return" ELSE "ap_messageflow"
    /\ UNCHANGED <<message_flow, include, idx, verify_log, exit_code, calls, path_flags,
                   records, extract_log, n_validate, valid, resp, artifacts, stats_list, yaml>>
    /\ UNCHANGED functionVars

\* analyze_path lines 165-175
AP_MessageFlow ==
    /\ pc = "ap_messageflow"
    /\ artifacts' = artifacts \cup {FileName(CurrentPath, "messageflow_short", "")}
                      \cup (IF message_flow THEN {FileName(CurrentPath, "messageflow", "")} ELSE {})
    /\ pc' = "ap_response"
    /\ UNCHANGED <<message_flow, include, idx, verify_log, exit_code, calls, path_flags,
                   records, extract_log, n_validate, valid, dur_log, stats, resp,
                   stats_list, yaml>>
    /\ UNCHANGED functionVars

\* analyze_path lines 177-204
AP_ResponseTime ==
    /\ pc = "ap_response"
    /\ dur_log' = Append(dur_log, records)
    /\ IF get_messageflow_durationtime(records, FALSE) = None
       THEN /\ pc' = "ap_store"
            /\ UNCHANGED <<stats, resp, artifacts>>
       ELSE \E df \in TraceSeriesPairs :
               LET computed == calc_stats(stats, df[1], df[2])
               IN \E failing \in SUBSET Range(CaseOrder) :
                     LET loop == ResponseTimeLoop(CurrentPath, CaseOrder, failing)
                     IN /\ artifacts' = artifacts \cup loop.written
                        /\ resp' = [ran |-> TRUE, failed |-> failing, best |-> df[1], worst |-> df[2]]
                        /\ stats' = IF loop.completed THEN computed ELSE stats
                        /\ pc' = IF loop.completed THEN "ap_store" ELSE "crashed"
    /\ UNCHANGED <<message_flow, include, idx, verify_log, exit_code, calls, path_flags,
                   records, extract_log, n_validate, valid, stats_list, yaml>>
    /\ UNCHANGED functionVars

\* analyze_path lines 206-208
AP_StoreFilename ==
    /\ pc = "ap_store"
    /\ stats' = store_filename(stats, CurrentPath, message_flow)
    /\ pc' = "ap_return"
    /\ UNCHANGED <<message_flow, include, idx, verify_log, exit_code, calls, path_flags,
                   records, extract_log, n_validate, valid, dur_log, resp, artifacts,
                   stats_list, yaml>>
    /\ UNCHANGED functionVars

\* analyze_path lines 163 and 210, analyze line 262: the locals end with the call
AP_Return ==
    /\ pc = "ap_return"
    /\ stats_list' = Append(stats_list, stats)
    /\ idx' = idx + 1
    /\ records' = NoTable /\ extract_log' = <<>> /\ n_validate' = 0
    /\ valid' = <<"ok", TRUE, TRUE>> /\ dur_log' = <<>>
    /\ stats' = NewStats(<<>>) /\ resp' = NoResp
    /\ pc' = "analyze"
    /\ UNCHANGED <<message_flow, include, verify_log, exit_code, calls, path_flags,
                   artifacts, yaml>>
    /\ UNCHANGED functionVars

\* analyze lines 265-270
SaveStats ==
    /\ pc = "analyze" /\ idx > Len(ArchPaths)
    /\ yaml' = [written |-> TRUE, list |-> stats_list]
    /\ pc' = "done"
    /\ UNCHANGED <<message_flow, include, idx, verify_log, exit_code, calls, path_flags,
                   records, extract_log, n_validate, valid, dur_log, stats, resp,
                   artifacts, stats_list>>
    /\ UNCHANGED functionVars

Next ==
    \/ Setup
    \/ VerifyPath
    \/ AP_Extract
    \/ AP_Validate
    \/ AP_Retry
    \/ AP_Duration
    \/ AP_MessageFlow
    \/ AP_ResponseTime
    \/ AP_StoreFilename
    \/ AP_Return
    \/ SaveStats

Spec == Init /\ [][Next]_vars

-----------------------------------------------------------------------------
(* The functions on their own: the inputs are drawn at the start, each      *)
(* action is one call.                                                      *)

InitRecords ==
    /\ pc = "idle" /\ message_flow = FALSE /\ IdleMain /\ IdleCfg /\ IdleStat
    /\ in_table \in Tables
    /\ out_dur_in = Unset /\ out_dur_out = Unset /\ out_valid = <<"unset">>

CallDuration ==
    \E check_by_input \in BOOLEAN :
       /\ IF check_by_input
          THEN out_dur_in' = get_messageflow_durationtime(in_table, TRUE) /\ UNCHANGED out_dur_out
          ELSE out_dur_out' = get_messageflow_durationtime(in_table, FALSE) /\ UNCHANGED out_dur_in
       /\ pc' = "called"
       /\ UNCHANGED <<in_table, out_valid, mainData, cfgVars, statVars>>

CallValidator ==
    /\ out_valid' = check_the_first_last_callback_is_valid(in_table)
    /\ pc' = "called"
    /\ UNCHANGED <<in_table, out_dur_in, out_dur_out, mainData, cfgVars, statVars>>

NextRecords == CallDuration \/ CallValidator

SpecRecords == InitRecords /\ [][NextRecords]_vars

InitConfig ==
    /\ pc = "idle" /\ message_flow = FALSE /\ IdleMain /\ IdleRec /\ IdleStat
    /\ in_paths \in Architectures
    /\ in_json \in TargetPathLists
    /\ out_include = <<"unset">>

CallGetInclude ==
    /\ pc = "idle"
    /\ out_include' = <<"set", get_include_first_last_callback(in_paths, in_json)>>
    /\ pc' = "called"
    /\ UNCHANGED <<in_paths, in_json, mainData, recVars, statVars>>

NextConfig == CallGetInclude

SpecConfig == InitConfig /\ [][NextConfig]_vars

InitStats ==
    /\ pc = "idle" /\ message_flow = FALSE /\ IdleMain /\ IdleRec /\ IdleCfg
    /\ in_best \in SeqsUpTo(Samples, MaxSamples)
    /\ in_worst \in SeqsUpTo(Samples, MaxSamples)
    /\ out_stats = NewStats(<<"a">>)

CallCalcStats ==
    /\ pc = "idle"
    /\ out_stats' = calc_stats(out_stats, in_best, in_worst)
    /\ pc' = "called"
    /\ UNCHANGED <<in_best, in_worst, mainData, recVars, cfgVars>>

NextStats == CallCalcStats

SpecStats == InitStats /\ [][NextStats]_vars

-----------------------------------------------------------------------------
(* Properties *)

InPath == pc \in {"ap_validate", "ap_retry", "ap_duration", "ap_messageflow",
                  "ap_response", "ap_store", "ap_return"}
AfterRetry == pc \in {"ap_duration", "ap_messageflow", "ap_response", "ap_store", "ap_return"}

AllVerified == Len(verify_log) = Len(ArchPaths) /\ \A k \in 1..Len(verify_log) : verify_log[k]

\* C1: analyze_path is called and stats_path.yaml is written only after verify()
\* returned true for every declared path; once verify() has returned false the
\* run has stopped with a non-zero exit code, at that path, with no path analysed.
C1_VerifyPrecedesAnalysis ==
    /\ (calls # <<>> \/ InPath \/ yaml.written \/ pc \in {"analyze", "done"}) => AllVerified
    /\ \A k \in 1..Len(verify_log) :
          ~verify_log[k] =>
             /\ k = Len(verify_log)
             /\ pc = "exited" /\ exit_code # 0
             /\ calls = <<>> /\ artifacts = {} /\ ~yaml.written
    /\ pc = "exited" => \E k \in 1..Len(verify_log) : ~verify_log[k]

\* the second declared path failed verification after the first one passed
C1_Witness == pc = "exited" /\ Len(verify_log) = 2 /\ verify_log[1]

\* name contains target: some position of name starts a copy of target
Contains(name, target) ==
    \E k \in 1..(Len(name) + 1) :
        \A m \in 1..Len(target) : k + m - 1 <= Len(name) /\ name[k + m - 1] = target[m]

Matching(name) == {k \in 1..Len(in_json) : Contains(name, in_json[k].name)}
LastOf(S) == CHOOSE k \in S : \A j \in S : j <= k

\* C2: the mapping's keys are exactly the declared path names; a path no entry
\* matches has (true, true), any other path has the pair of the last matching
\* entry in file order, an absent field counting as true; the single entry
\* {name: "a", include_first_callback: false} gives (false, true) to every path
\* whose name contains "a".
C2_ConfigResolution ==
    out_include[1] = "set" =>
       LET d == out_include[2]
       IN /\ DOMAIN d = Range(in_paths)
          /\ \A n \in DOMAIN d :
                IF Matching(n) = {} THEN d[n] = <<TRUE, TRUE>>
                ELSE LET e == in_json[LastOf(Matching(n))]
                     IN d[n] = <<e.include_first_callback \in {"true", "absent"},
                                 e.include_last_callback \in {"true", "absent"}>>
          /\ (in_json = <<[name |-> <<"a">>, include_first_callback |-> "false",
                           include_last_callback |-> "absent"]>>)
                => \A n \in DOMAIN d : Contains(n, <<"a">>) => d[n] = <<FALSE, TRUE>>

\* two entries with different values match one path, the later one has an absent field
C2_Witness ==
    /\ out_include[1] = "set"
    /\ Len(in_json) = 2
    /\ \E n \in Range(in_paths) :
          /\ Matching(n) = {1, 2}
          /\ in_json[2].include_first_callback = "absent"
          /\ in_json[1].include_first_callback = "false"
          /\ in_json[2].include_last_callback = "false"
          /\ out_include[2][n] = <<TRUE, FALSE>>

AllPlaceholders(st) ==
    /\ \A f \in StatFields : st.best[f] = Placeholder
    /\ \A f \in StatFields : st.worst[f] = Placeholder

ResponseKinds == {"response_time_csv", "timeseries", "hist", "stacked_bar"}
ResponseFiles(name) == {FileName(name, k, c) : k \in ResponseKinds, c \in Range(CaseOrder)}

\* C3: a verified path whose records table has zero rows gets a Stats with all 14
\* statistics at '---' and no response-time artifact; the run completes and the
\* report lists every path.
C3_ZeroRowsPlaceholder ==
    /\ (pc = "ap_return" /\ \A k \in 1..Len(extract_log) : extract_log[k].table.rows = <<>>)
          => /\ AllPlaceholders(stats)
             /\ artifacts \cap ResponseFiles(CurrentPath) = {}
    /\ pc = "done" =>
          /\ yaml.written
          /\ Len(yaml.list) = Len(ArchPaths)
          /\ \A k \in 1..Len(ArchPaths) : yaml.list[k].target_path_name = ArchPaths[k]

\* C4: for a table with zero rows get_messageflow_durationtime returns None in
\* both window modes.
C4_ZeroRowsUndefined ==
    in_table.rows = <<>> => /\ out_dur_in \in {Unset, None}
                            /\ out_dur_out \in {Unset, None}

\* C5: is_first_valid is false exactly when the first column has no sample and
\* is_last_valid is false exactly when the last column has no sample.
C5_IndependentBoundaries ==
    (out_valid[1] = "ok") =>
        /\ out_valid[2] = (ColumnValues(in_table, 1) # {})
        /\ out_valid[3] = (ColumnValues(in_table, in_table.ncols) # {})

\* r/1000 is x/16 rounded to 3 decimals
IsRounded(r, x) == 16 * r - 1000 * x <= 8 /\ 1000 * x - 16 * r <= 8

CaseAsClaimed(st, df) ==
    /\ st["avg"] # Placeholder
    /\ Len(df) = 1 =>
          /\ st["avg"][1] = "num" /\ IsRounded(st["avg"][2], df[1])
          /\ \A f \in SpreadFields : st[f] = Placeholder
    /\ \A f \in SpreadFields : (st[f][1] = "num") <=> (Len(df) > 1)
    /\ \A f \in SpreadFields : (st[f] = Placeholder) <=> (Len(df) <= 1)

\* C6: calc_stats always sets the average of each case; for one sample the average
\* is that sample rounded to 3 decimals and std, min, max, p50, p95, p99 stay
\* '---'; these six are numbers exactly when the case has more than one sample;
\* the best case depends on df_best alone and the worst case on df_worst alone.
C6_CalcStats ==
    (pc = "called" /\ out_stats.target_path_name = <<"a">>) =>
        /\ CaseAsClaimed(out_stats.best, in_best)
        /\ CaseAsClaimed(out_stats.worst, in_worst)

C6_Witness ==
    /\ pc = "called"
    /\ in_best = <<1>> /\ out_stats.best["avg"] = <<"num", 62>>
    /\ Len(in_worst) > 1 /\ out_stats.worst["p95"][1] = "num"

\* C7: when a stacked bar fails the path goes on: CSV, time series and histogram
\* of all three cases are written, a stacked bar is missing only for the failing
\* cases, and the statistics are those of the best and worst series.
C7_StackedBarFailureIsolated ==
    resp.ran =>
        /\ pc \in {"ap_store", "ap_return"}
        /\ \A c \in Range(CaseOrder) :
              /\ FileName(CurrentPath, "response_time_csv", c) \in artifacts
              /\ FileName(CurrentPath, "timeseries", c) \in artifacts
              /\ FileName(CurrentPath, "hist", c) \in artifacts
              /\ (FileName(CurrentPath, "stacked_bar", c) \in artifacts) <=> (c \notin resp.failed)
        /\ stats.best = CaseStats(resp.best)
        /\ stats.worst = CaseStats(resp.worst)

\* the stacked bar of the first case failed and the statistics are numbers
C7_Witness ==
    /\ pc = "ap_return" /\ resp.ran /\ resp.failed = {"best"}
    /\ stats.worst["max"][1] = "num"

\* C8: records are extracted once when both boundaries are valid and twice
\* otherwise; the second extraction has every invalid boundary disabled, the
\* validator runs once, and every duration check reads the last extraction.
C8_OneShotRetry ==
    /\ Len(extract_log) <= 2 /\ n_validate <= 1
    /\ AfterRetry =>
          LET n == Len(extract_log)
          IN /\ n_validate = 1
             /\ n = (IF valid[2] /\ valid[3] THEN 1 ELSE 2)
             /\ n = 2 => /\ (~valid[2] => ~extract_log[2].flags[1])
                         /\ (~valid[3] => ~extract_log[2].flags[2])
             /\ records = extract_log[n].table
             /\ \A k \in 1..Len(dur_log) : dur_log[k] = extract_log[n].table

\* a retried path whose second extraction went through both duration checks
C8_Witness ==
    /\ pc = "ap_store" /\ Len(extract_log) = 2 /\ Len(dur_log) = 2
    /\ extract_log[1].flags = <<TRUE, TRUE>>
    /\ extract_log[2].table # extract_log[1].table

FilenameFields(st) ==
    {st.filename_messageflow, st.filename_messageflow_short, st.filename_hist_total}
    \cup {st.filename_hist[c] : c \in {"best", "worst"}}
    \cup {st.filename_timeseries[c] : c \in {"best", "worst"}}
    \cup {st.filename_stacked_bar[c] : c \in {"best", "worst"}}

\* C9: every non-empty filename of the Stats that analyze_path returns names an
\* artifact written for this path.
C9_FilenamesNameArtifacts ==
    pc = "ap_return" => \A f \in FilenameFields(stats) : f # NoFile => f \in artifacts

=============================================================================
